---------------------------- MODULE Spec2Model ----------------------------
(***************************************************************************)
(* Model of the database refresh manager (src/index.js).                   *)
(*                                                                         *)
(* The program is a single Node.js process.  Its code runs on one thread   *)
(* and yields only at an await, so every action below is the code between  *)
(* two awaits of one asynchronous call.  A call of refreshDatabase is a    *)
(* task: task 0 is the call made at startup (line 330), tasks 1..MaxTicks  *)
(* are invocations of the setInterval callback (lines 332-339) that may    *)
(* be alive at the same time.                                              *)
(*                                                                         *)
(* The collaborators (SQL Server, the file system, the snapshot command)   *)
(* are the environment: each call to them succeeds or fails                *)
(* nondeterministically.  A statement the driver reports as failed may     *)
(* still have been executed by the server (requestTimeout,                 *)
(* src/database-config.js line 24), so a failed drop or attach leaves the  *)
(* database in either state.                                               *)
(***************************************************************************)
EXTENDS Integers, Sequences, FiniteSets, TLC

\* src/database-config.js:10
MAX_RETRY_ATTEMPTS == 5

\* Number of setInterval callback invocations that may be alive at once.
MaxTicks == 2

\* Number of consecutive calls of dropDatabase made when it is exercised alone.
MaxDropCalls == 3

\* Number of shutdown triggers delivered to the process.
MaxSignals == 2

DB_NAME == "BULLIONDEMO"
SOURCE_PATH == "D:/SQLDB/BULLIONDEMO.mdf"
DESTINATION_FOLDER == "D:/ERP"

\* path.join(DESTINATION_FOLDER, path.basename(SOURCE_PATH)), line 227
DestinationPath == "D:/ERP/BULLIONDEMO.mdf"

Startup == 0
TickSlots == 1..MaxTicks
Tasks == {Startup} \cup TickSlots

\* The events with a handler that closes the pool and exits, lines 306-322.
Handlers == {"SIGINT", "SIGTERM", "uncaughtException"}

VARIABLES
    isRefreshInProgress,  \* line 25
    sqlPool,              \* line 26: "null", "open" or "closed"
    db,                   \* the named database on the server: "ABSENT" or "ATTACHED"
    srcOK,                \* SOURCE_PATH is readable
    destDir,              \* DESTINATION_FOLDER exists
    destFile,             \* DestinationPath holds a copy
    proc,                 \* "running" or "exited"
    mainPc,               \* position of startDatabaseManagement
    timerOn,              \* setInterval has been called
    pc,                   \* pc[i]: position of task i
    stage,                \* stage[i]: the retry-wrapped function task i is in
    rt,                   \* rt[i]: the withRetry frame of that function
    rtIn,                 \* rtIn[i]: the frame of checkDatabaseExists called by dropDatabase
    res,                  \* res[i]: value returned by the last completed call
    ret,                  \* ret[i]: how refreshDatabase ended: "none", "true", "false", "threw"
    hist,                 \* hist[i]: what task i's current call has done so far
    calls,                \* calls of dropDatabase made so far when it is exercised alone
    hpc,                  \* hpc[k]: position of the handler of event k
    closes,               \* invocations of sqlPool.close() so far
    stmts                 \* statements sent by the current call of dropDatabase

vars == <<isRefreshInProgress, sqlPool, db, srcOK, destDir, destFile, proc,
          mainPc, timerOn, pc, stage, rt, rtIn, res, ret, hist, calls, hpc, closes,
          stmts>>

env == <<db, srcOK, destDir, destFile>>
shut == <<hpc, closes>>
sched == <<proc, mainPc, timerOn, calls, hpc, closes, stmts>>

-----------------------------------------------------------------------------
(* Error messages.  A message is a sequence of tokens, so that building a  *)
(* message from another (template literals) is concatenation and           *)
(* String.includes is a search.                                            *)

ErrQuery == <<"request failed">>
ErrConnect == <<"connection failed">>
ErrExec == <<"Command failed">>
ErrMkdir == <<"mkdir failed">>
ErrCopy == <<"copyFile failed">>
ErrRead == <<"readFile failed">>
ErrCouldNotOpen == <<"Could not open new database", DB_NAME, "CREATE DATABASE is aborted">>
ErrExists == <<"Database", DB_NAME, "already exists">>
ErrShadow == <<"Shadow path creation failed">>
ErrSource == <<"Source file", SOURCE_PATH, "is not accessible">>
ErrMdf == <<"MDF file", DestinationPath, "is not accessible">>
ErrCapSource == <<"Source database file is not accessible">>

Includes(msg, token) == \E k \in 1..Len(msg) : msg[k] = token

-----------------------------------------------------------------------------
(* withRetry, lines 55-76.  A frame holds the locals of one call           *)
(* (attempt, lastError) and counts what the call has logged and run.       *)

NoFrame ==
    [name |-> "none", attempt |-> 0, lastError |-> <<>>, result |-> FALSE,
     \* lines written to the log and delays waited
     starts |-> 0, oks |-> 0, fails |-> 0, waits |-> 0,
     \* what the operation did: times invoked, times it threw, the last error
     \* it threw, the value it resolved with
     runs |-> 0, opFails |-> 0, opError |-> <<>>, opValue |-> FALSE]

RetryBegin(operationName) ==
    [NoFrame EXCEPT !.name = operationName, !.attempt = 1]

\* Variant of RetryAttemptStart: only retries are logged.
RetryAttemptStartRetriesOnly(f) ==
    [f EXCEPT !.starts = IF f.attempt > 1 THEN @ + 1 ELSE @]

\* line 60: the attempt-start line
RetryAttemptStart(f) ==
    [f EXCEPT !.starts = @ + 1]

\* lines 61-63: the operation resolved with v
RetrySuccess(f, v) ==
    [f EXCEPT !.result = v, !.oks = @ + 1]

\* Variant of RetryMayWait: the loop has no last attempt.
RetryMayWaitAlways(f) == TRUE

\* line 68
RetryMayWait(f) == f.attempt < MAX_RETRY_ATTEMPTS

\* Variant of RetryCatch: the first error is kept instead of the last.
RetryCatchKeepsFirst(f, e) ==
    [f EXCEPT !.lastError = IF f.fails = 0 THEN e ELSE @,
              !.fails = @ + 1,
              !.waits = IF f.attempt < MAX_RETRY_ATTEMPTS THEN @ + 1 ELSE @]

\* lines 64-71: e is the error the operation threw
RetryCatch(f, e) ==
    [f EXCEPT !.lastError = e,
              !.fails = @ + 1,
              !.waits = IF RetryMayWait(f) THEN @ + 1 ELSE @]

\* line 58: attempt++ after the delay
RetryNext(f) ==
    [f EXCEPT !.attempt = @ + 1]

\* line 75
RetryExhaustedError(f) ==
    <<f.name, "failed after", ToString(MAX_RETRY_ATTEMPTS), "attempts. Last error:">>
        \o f.lastError

NameExists == "Database existence check"
NameDrop == "Database drop operation"
NameVss == "VSS copy operation"
NameFallback == "Fallback copy operation"
NameHash == "File hash calculation"
NameCreate == "Database creation"

-----------------------------------------------------------------------------
(* The collaborators.                                                      *)

\* initializeSqlPool, lines 29-39: the pool it leaves and whether it threw
InitializeSqlPool(pool) ==
    IF pool # "null"
    THEN {[pool |-> pool, ok |-> TRUE, err |-> <<>>]}
    ELSE {[pool |-> "open", ok |-> TRUE, err |-> <<>>],
          [pool |-> "null", ok |-> FALSE, err |-> ErrConnect]}

\* sqlPool.request().query(...): a request on a closed pool is rejected
QueryOutcomes(pool) == IF pool = "open" THEN {TRUE, FALSE} ELSE {FALSE}

\* Variant of ExistsResult: the test of the record set is inverted.
ExistsResultInverted(d) == d # "ATTACHED"

\* result.recordset.length > 0, line 158
ExistsResult(d) == d = "ATTACHED"

\* checkFileAccessibility, lines 79-86
CheckFileAccessibility(readable) == readable

\* The statements a call of dropDatabase has sent: catalog queries of its
\* existence checks and single-user/drop statements.  They are counted where
\* dropDatabase is exercised alone (calls > 0).
NoStmts == [exists |-> 0, drop |-> 0]

Sent(s, kind, counted) == IF counted THEN [s EXCEPT ![kind] = @ + 1] ELSE s

\* The record kept of one call of refreshDatabase.
HistInit ==
    [skipped |-> FALSE,
     \* SOURCE_PATH has been readable at some moment of the call
     srcSeen |-> FALSE,
     \* the database and the destination directory when the call began
     startDb |-> "ABSENT", startDir |-> FALSE,
     \* no call to a collaborator has failed so far
     clean |-> TRUE,
     \* statements and file operations issued
     existsQ |-> FALSE, dropQ |-> FALSE, mkdir |-> FALSE, copy |-> FALSE,
     read |-> FALSE, createQ |-> FALSE,
     \* how each step ended
     exists |-> "none", drop |-> "none", vss |-> "none", fb |-> "none",
     hash |-> "none", cap |-> "none", create |-> "none",
     \* the arguments of the two copy calls
     vssArgs |-> <<>>, fbArgs |-> <<>>,
     \* in the current attempt of createDatabase: attach statements issued in
     \* each mode and the error the standard one was rejected with
     attStd |-> 0, attForce |-> 0, attStdErr |-> <<>>,
     \* a drop statement reported as failed was executed by the server
     dropLost |-> FALSE]

-----------------------------------------------------------------------------
Init ==
    /\ isRefreshInProgress = FALSE
    /\ sqlPool = "null"
    /\ db \in {"ABSENT", "ATTACHED"}
    /\ srcOK \in BOOLEAN
    /\ destDir \in BOOLEAN
    /\ destFile \in {f \in BOOLEAN : f => destDir}
    /\ proc = "running"
    /\ mainPc = "init"
    /\ timerOn = FALSE
    /\ pc = [i \in Tasks |-> "idle"]
    /\ stage = [i \in Tasks |-> "none"]
    /\ rt = [i \in Tasks |-> NoFrame]
    /\ rtIn = [i \in Tasks |-> NoFrame]
    /\ res = [i \in Tasks |-> FALSE]
    /\ ret = [i \in Tasks |-> "none"]
    /\ hist = [i \in Tasks |-> HistInit]
    /\ calls = 0
    /\ stmts = NoStmts
    /\ hpc = [k \in Handlers |-> "idle"]
    /\ closes = 0

Running == proc = "running"


\* The frame task i is executing in: the inner one while dropDatabase waits
\* for its own checkDatabaseExists.
Inner(i) == stage[i] = "dropExists"
Frame(i) == IF Inner(i) THEN rtIn[i] ELSE rt[i]

SetFrame(i, f) ==
    /\ rt' = IF Inner(i) THEN rt ELSE [rt EXCEPT ![i] = f]
    /\ rtIn' = IF Inner(i) THEN [rtIn EXCEPT ![i] = f] ELSE rtIn

\* The operation of the current frame resolved with v: lines 61-63.
Resolve(i, v, h) ==
    /\ SetFrame(i, [RetrySuccess(Frame(i), v) EXCEPT !.opValue = v])
    /\ pc' = [pc EXCEPT ![i] = "retOK"]
    /\ res' = [res EXCEPT ![i] = RetrySuccess(Frame(i), v).result]
    /\ hist' = [hist EXCEPT ![i] = h]

\* The operation of the current frame threw e: lines 64-72.
Reject(i, e, h) ==
    /\ SetFrame(i, [RetryCatch(Frame(i), e) EXCEPT !.opFails = @ + 1, !.opError = e])
    /\ pc' = [pc EXCEPT ![i] = IF RetryMayWait(Frame(i)) THEN "delay" ELSE "exhausted"]
    /\ res' = res
    /\ hist' = [hist EXCEPT ![i] = [h EXCEPT !.clean = FALSE]]

\* The operation goes on to its next await.
Step(i, next, h) ==
    /\ pc' = [pc EXCEPT ![i] = next]
    /\ hist' = [hist EXCEPT ![i] = h]
    /\ UNCHANGED <<rt, rtIn, res>>

-----------------------------------------------------------------------------
(* refreshDatabase, lines 260-292.                                         *)

\* Variant of MayStartCycle: the in-progress test is missing.
MayStartCycleUnguarded(inProgress) == TRUE

\* line 261: the call goes on only when this is true
MayStartCycle(inProgress) == ~inProgress

\* lines 261-267, for a call made by task i: the flag is tested and set with
\* no await in between; a call that finds it set is left writing its skip line
RefreshEntry(i) ==
    IF MayStartCycle(isRefreshInProgress)
    THEN /\ isRefreshInProgress' = TRUE
         /\ pc' = [pc EXCEPT ![i] = "begin"]
         /\ ret' = [ret EXCEPT ![i] = "none"]
         /\ hist' = [hist EXCEPT ![i] =
                         [HistInit EXCEPT !.startDb = db, !.startDir = destDir,
                                          !.srcSeen = srcOK]]
    ELSE /\ isRefreshInProgress' = isRefreshInProgress
         /\ pc' = [pc EXCEPT ![i] = "skip"]
         /\ ret' = [ret EXCEPT ![i] = "false"]
         /\ hist' = [hist EXCEPT ![i] = [HistInit EXCEPT !.skipped = TRUE]]

\* Variant of CallerResumes: the timer is armed only when the startup cycle
\* succeeded.
CallerResumesArmsOnSuccess(i, r) ==
    IF i = Startup
    THEN /\ mainPc' = IF r = "threw" THEN "fatal" ELSE "started"
         /\ timerOn' = (r = "true")
         /\ UNCHANGED <<proc, calls, shut, stmts>>
    ELSE UNCHANGED sched

\* What the caller of task i's refreshDatabase does when the call ends with
\* outcome r.  Startup: lines 330-345, the timer is armed, or the catch block
\* runs when the call threw.  Timer callback: lines 335-338, nothing more.
CallerResumes(i, r) ==
    IF i = Startup
    THEN /\ mainPc' = IF r = "threw" THEN "fatal" ELSE "started"
         /\ timerOn' = (r # "threw")
         /\ UNCHANGED <<proc, calls, shut, stmts>>
    ELSE UNCHANGED sched

\* Variant of RefreshSkipReturn: the early return sits inside the try block, so
\* the finally clause clears the flag of the cycle that is running.
RefreshSkipReturnInsideTry(i) ==
    /\ Running
    /\ pc[i] = "skip"
    /\ pc' = [pc EXCEPT ![i] = "idle"]
    /\ ret' = [ret EXCEPT ![i] = "none"]
    /\ hist' = [hist EXCEPT ![i] = HistInit]
    /\ isRefreshInProgress' = FALSE
    /\ CallerResumes(i, ret[i])
    /\ UNCHANGED <<sqlPool, env, stage, rt, rtIn, res>>

\* lines 262-263: the skip line has been written; false is returned
RefreshSkipReturn(i) ==
    /\ Running
    /\ pc[i] = "skip"
    /\ pc' = [pc EXCEPT ![i] = "idle"]
    /\ ret' = [ret EXCEPT ![i] = "none"]
    /\ hist' = [hist EXCEPT ![i] = HistInit]
    /\ CallerResumes(i, ret[i])
    /\ UNCHANGED <<isRefreshInProgress, sqlPool, env, stage, rt, rtIn, res>>

\* lines 267-270: checkDatabaseExists is called
RefreshBegin(i) ==
    /\ Running
    /\ pc[i] = "begin"
    /\ stage' = [stage EXCEPT ![i] = "exists"]
    /\ rt' = [rt EXCEPT ![i] = RetryBegin(NameExists)]
    /\ pc' = [pc EXCEPT ![i] = "attempt"]
    /\ UNCHANGED <<isRefreshInProgress, sqlPool, env, sched, rtIn, res, ret, hist>>

\* Variant of RefreshOnError: the error is thrown on to the caller.
RefreshOnErrorRethrows(e) == "threw"

\* lines 286-288: what refreshDatabase does with an error thrown in its try block
RefreshOnError(e) == "false"

\* Variant of FlagAfterCycle: the flag is cleared on the success path only.
FlagAfterCycleNoFinally(r) == r # "true"

\* line 290, run whatever the outcome r of the try block
FlagAfterCycle(r) == FALSE

\* lines 289-291 and the return: the flag is cleared as the call ends
RefreshReturn(i) ==
    /\ Running
    /\ pc[i] = "r_end"
    /\ isRefreshInProgress' = FlagAfterCycle(ret[i])
    /\ pc' = [pc EXCEPT ![i] = "idle"]
    /\ ret' = [ret EXCEPT ![i] = "none"]
    /\ hist' = [hist EXCEPT ![i] = HistInit]
    /\ CallerResumes(i, ret[i])
    /\ UNCHANGED <<sqlPool, env, stage, rt, rtIn, res>>

-----------------------------------------------------------------------------
(* startDatabaseManagement, lines 305-346.                                 *)

\* lines 328-330: the pool is created, then refreshDatabase is called
MainInitPool ==
    /\ Running
    /\ mainPc = "init"
    /\ \E o \in InitializeSqlPool(sqlPool) :
          /\ sqlPool' = o.pool
          /\ IF o.ok
             THEN /\ mainPc' = "refresh"
                  /\ RefreshEntry(Startup)
             ELSE /\ mainPc' = "fatal"
                  /\ UNCHANGED <<isRefreshInProgress, pc, ret, hist>>
    /\ UNCHANGED <<env, proc, timerOn, stage, rt, rtIn, res, calls, shut, stmts>>

\* lines 342-344: startup failed, the process exits with code 1
MainFatalExit ==
    /\ Running
    /\ mainPc = "fatal"
    /\ proc' = "exited"
    /\ UNCHANGED <<isRefreshInProgress, sqlPool, env, mainPc, timerOn, pc, stage, rt,
                   rtIn, res, ret, hist, calls, shut, stmts>>

\* lines 332-335: the timer fires; the callback logs and calls refreshDatabase
Tick(i) ==
    /\ Running
    /\ timerOn
    /\ i \in TickSlots
    /\ pc[i] = "idle"
    /\ RefreshEntry(i)
    /\ UNCHANGED <<sqlPool, env, sched, stage, rt, rtIn, res>>

-----------------------------------------------------------------------------
(* withRetry as steps of the calling task, lines 55-76.                    *)

\* The first await of the operation each retry-wrapped function passes.
OpEntry(s) ==
    CASE s \in {"exists", "dropExists"} -> "query"
      [] s = "drop" -> "d_call"
      [] s \in {"vss", "fallback", "create"} -> "access"
      [] s = "hash" -> "read"

\* lines 58-61: the attempt is logged and the operation invoked
RetryAttempt(i) ==
    /\ Running
    /\ pc[i] = "attempt"
    /\ SetFrame(i, [RetryAttemptStart(Frame(i)) EXCEPT !.runs = @ + 1])
    /\ pc' = [pc EXCEPT ![i] = OpEntry(stage[i])]
    /\ hist' = [hist EXCEPT ![i] =
                    [@ EXCEPT !.attStd = 0, !.attForce = 0, !.attStdErr = <<>>]]
    /\ UNCHANGED <<isRefreshInProgress, sqlPool, env, sched, stage, res, ret>>

\* lines 69-70, then the loop's attempt++
RetryDelay(i) ==
    /\ Running
    /\ pc[i] = "delay"
    /\ SetFrame(i, RetryNext(Frame(i)))
    /\ pc' = [pc EXCEPT ![i] = "attempt"]
    /\ UNCHANGED <<isRefreshInProgress, sqlPool, env, sched, stage, res, ret, hist>>

-----------------------------------------------------------------------------
(* checkDatabaseExists, lines 149-160.                                     *)

\* lines 151-158: the pool is ensured, the catalog query is sent
ExistsQuery(i) ==
    /\ Running
    /\ pc[i] = "query"
    /\ stage[i] \in {"exists", "dropExists"}
    /\ \E o \in InitializeSqlPool(sqlPool) :
          /\ sqlPool' = o.pool
          /\ IF ~o.ok
             THEN /\ Reject(i, o.err, hist[i])
                  /\ stmts' = stmts
             ELSE /\ stmts' = Sent(stmts, "exists", calls > 0)
                  /\ \E ok \in QueryOutcomes(o.pool) :
                        IF ok
                        THEN Resolve(i, ExistsResult(db), [hist[i] EXCEPT !.existsQ = TRUE])
                        ELSE Reject(i, ErrQuery, [hist[i] EXCEPT !.existsQ = TRUE])
    /\ UNCHANGED <<isRefreshInProgress, env, proc, mainPc, timerOn, calls, shut, stage, ret>>

\* Variant of ExistsReturn: dropDatabase is not awaited, the transfer starts
\* at once.
ExistsReturnDropNotAwaited(i) ==
    /\ Running
    /\ pc[i] = "retOK"
    /\ stage[i] = "exists"
    /\ stage' = [stage EXCEPT ![i] = "cap"]
    /\ rt' = [rt EXCEPT ![i] = NoFrame]
    /\ pc' = [pc EXCEPT ![i] = "cap_access"]
    /\ res' = [res EXCEPT ![i] = FALSE]
    /\ hist' = [hist EXCEPT ![i].exists = IF res[i] THEN "found" ELSE "absent"]
    /\ UNCHANGED <<isRefreshInProgress, sqlPool, env, sched, rtIn, ret>>

\* lines 270-277: refreshDatabase has the answer
ExistsReturn(i) ==
    /\ Running
    /\ pc[i] = "retOK"
    /\ stage[i] = "exists"
    /\ IF res[i]
       THEN /\ stage' = [stage EXCEPT ![i] = "drop"]
            /\ rt' = [rt EXCEPT ![i] = RetryBegin(NameDrop)]
            /\ pc' = [pc EXCEPT ![i] = "attempt"]
       ELSE /\ stage' = [stage EXCEPT ![i] = "cap"]
            /\ rt' = [rt EXCEPT ![i] = NoFrame]
            /\ pc' = [pc EXCEPT ![i] = "cap_access"]
    /\ res' = [res EXCEPT ![i] = FALSE]
    /\ hist' = [hist EXCEPT ![i].exists = IF res[i] THEN "found" ELSE "absent"]
    /\ UNCHANGED <<isRefreshInProgress, sqlPool, env, sched, rtIn, ret>>

\* Variant of RefreshCatch: the error of dropDatabase is swallowed and the
\* cycle goes on to the transfer.
RefreshCatchSwallowsDropError(i) ==
    /\ Running
    /\ pc[i] = "exhausted"
    /\ stage[i] \in {"exists", "drop", "create"}
    /\ rt' = [rt EXCEPT ![i] = NoFrame]
    /\ IF stage[i] = "drop"
       THEN /\ ret' = ret
            /\ pc' = [pc EXCEPT ![i] = "cap_access"]
            /\ stage' = [stage EXCEPT ![i] = "cap"]
            /\ hist' = [hist EXCEPT ![i].drop = "exhausted"]
       ELSE /\ ret' = [ret EXCEPT ![i] = RefreshOnError(RetryExhaustedError(rt[i]))]
            /\ pc' = [pc EXCEPT ![i] = "r_end"]
            /\ stage' = [stage EXCEPT ![i] = "none"]
            /\ hist' = [hist EXCEPT ![i] =
                            CASE stage[i] = "exists" -> [@ EXCEPT !.exists = "exhausted"]
                              [] stage[i] = "create" -> [@ EXCEPT !.create = "exhausted"]]
    /\ UNCHANGED <<isRefreshInProgress, sqlPool, env, sched, rtIn, res>>

\* line 75 thrown by checkDatabaseExists, dropDatabase or createDatabase into
\* refreshDatabase's try block, lines 286-288
RefreshCatch(i) ==
    /\ Running
    /\ pc[i] = "exhausted"
    /\ stage[i] \in {"exists", "drop", "create"}
    /\ ret' = [ret EXCEPT ![i] = RefreshOnError(RetryExhaustedError(rt[i]))]
    /\ pc' = [pc EXCEPT ![i] = "r_end"]
    /\ stage' = [stage EXCEPT ![i] = "none"]
    /\ rt' = [rt EXCEPT ![i] = NoFrame]
    /\ hist' = [hist EXCEPT ![i] =
                    CASE stage[i] = "exists" -> [@ EXCEPT !.exists = "exhausted"]
                      [] stage[i] = "drop" -> [@ EXCEPT !.drop = "exhausted"]
                      [] stage[i] = "create" -> [@ EXCEPT !.create = "exhausted"]]
    /\ UNCHANGED <<isRefreshInProgress, sqlPool, env, sched, rtIn, res>>

-----------------------------------------------------------------------------
(* dropDatabase, lines 162-186.                                            *)

\* lines 164-166: the pool is ensured, checkDatabaseExists is called
DropCallExists(i) ==
    /\ Running
    /\ pc[i] = "d_call"
    /\ stage[i] = "drop"
    /\ \E o \in InitializeSqlPool(sqlPool) :
          /\ sqlPool' = o.pool
          /\ IF o.ok
             THEN /\ stage' = [stage EXCEPT ![i] = "dropExists"]
                  /\ rtIn' = [rtIn EXCEPT ![i] = RetryBegin(NameExists)]
                  /\ pc' = [pc EXCEPT ![i] = "attempt"]
                  /\ UNCHANGED <<rt, res, hist>>
             ELSE /\ Reject(i, o.err, hist[i])
                  /\ stage' = stage
    /\ UNCHANGED <<isRefreshInProgress, env, sched, ret>>

\* Variant of DropExistsReturn: the answer of the inner check is not looked at.
DropExistsReturnNoPrecheck(i) ==
    /\ Running
    /\ pc[i] = "retOK"
    /\ stage[i] = "dropExists"
    /\ stage' = [stage EXCEPT ![i] = "drop"]
    /\ rtIn' = [rtIn EXCEPT ![i] = NoFrame]
    /\ pc' = [pc EXCEPT ![i] = "d_query"]
    /\ res' = [res EXCEPT ![i] = FALSE]
    /\ UNCHANGED <<isRefreshInProgress, sqlPool, env, sched, rt, ret, hist>>

\* lines 166-170: the inner check answered
DropExistsReturn(i) ==
    /\ Running
    /\ pc[i] = "retOK"
    /\ stage[i] = "dropExists"
    /\ stage' = [stage EXCEPT ![i] = "drop"]
    /\ rtIn' = [rtIn EXCEPT ![i] = NoFrame]
    /\ IF ~res[i]
       THEN /\ rt' = [rt EXCEPT ![i] = [RetrySuccess(rt[i], TRUE) EXCEPT !.opValue = TRUE]]
            /\ pc' = [pc EXCEPT ![i] = "retOK"]
            /\ res' = [res EXCEPT ![i] = RetrySuccess(rt[i], TRUE).result]
       ELSE /\ pc' = [pc EXCEPT ![i] = "d_query"]
            /\ res' = [res EXCEPT ![i] = FALSE]
            /\ rt' = rt
    /\ UNCHANGED <<isRefreshInProgress, sqlPool, env, sched, ret, hist>>

\* Variant of DropExistsThrow: the error of the inner check is ignored and the
\* drop statement is sent.
DropExistsThrowIgnored(i) ==
    /\ Running
    /\ pc[i] = "exhausted"
    /\ stage[i] = "dropExists"
    /\ stage' = [stage EXCEPT ![i] = "drop"]
    /\ rtIn' = [rtIn EXCEPT ![i] = NoFrame]
    /\ rt' = rt
    /\ pc' = [pc EXCEPT ![i] = "d_query"]
    /\ UNCHANGED <<isRefreshInProgress, sqlPool, env, sched, res, ret, hist>>

\* line 75 thrown by the inner check into the drop operation, lines 64-72
DropExistsThrow(i) ==
    /\ Running
    /\ pc[i] = "exhausted"
    /\ stage[i] = "dropExists"
    /\ stage' = [stage EXCEPT ![i] = "drop"]
    /\ rtIn' = [rtIn EXCEPT ![i] = NoFrame]
    /\ rt' = [rt EXCEPT ![i] =
                  [RetryCatch(rt[i], RetryExhaustedError(rtIn[i]))
                       EXCEPT !.opFails = @ + 1, !.opError = RetryExhaustedError(rtIn[i])]]
    /\ pc' = [pc EXCEPT ![i] = IF RetryMayWait(rt[i]) THEN "delay" ELSE "exhausted"]
    /\ UNCHANGED <<isRefreshInProgress, sqlPool, env, sched, res, ret, hist>>

\* What a failed drop statement leaves: the server ran none of it, or ran it
\* and the answer was lost.
AfterFailedDrop(d) == {d, "ABSENT"}

\* lines 172-184: the single-user/drop statement
DropQuery(i) ==
    /\ Running
    /\ pc[i] = "d_query"
    /\ stage[i] = "drop"
    /\ stmts' = Sent(stmts, "drop", calls > 0)
    /\ \E ok \in QueryOutcomes(sqlPool) :
          IF ok
          THEN /\ db' = "ABSENT"
               /\ Resolve(i, TRUE, [hist[i] EXCEPT !.dropQ = TRUE])
          ELSE /\ db' \in (IF sqlPool = "open" THEN AfterFailedDrop(db) ELSE {db})
               /\ Reject(i, <<"Failed to drop database:">> \o ErrQuery,
                         [hist[i] EXCEPT !.dropQ = TRUE, !.dropLost = @ \/ db' # db])
    /\ UNCHANGED <<isRefreshInProgress, sqlPool, srcOK, destDir, destFile, proc, mainPc,
                   timerOn, calls, shut, stage, ret>>

\* lines 274-277 and 226-228: the drop is done, copyAndPrepareDatabase is called
DropReturn(i) ==
    /\ Running
    /\ pc[i] = "retOK"
    /\ stage[i] = "drop"
    /\ stage' = [stage EXCEPT ![i] = "cap"]
    /\ rt' = [rt EXCEPT ![i] = NoFrame]
    /\ pc' = [pc EXCEPT ![i] = "cap_access"]
    /\ res' = [res EXCEPT ![i] = FALSE]
    /\ hist' = [hist EXCEPT ![i].drop = "ok"]
    /\ UNCHANGED <<isRefreshInProgress, sqlPool, env, sched, rtIn, ret>>

-----------------------------------------------------------------------------
(* copyAndPrepareDatabase, lines 226-258, with copyFileWithVSS (97-134),   *)
(* fallbackCopy (136-146) and calculateFileHash (88-95).                   *)

\* Variant of CapAccess: the catch block of the transfer reports success.
CapAccessFailureReportedAsSuccess(i) ==
    /\ Running
    /\ pc[i] = "cap_access"
    /\ IF CheckFileAccessibility(srcOK)
       THEN /\ stage' = [stage EXCEPT ![i] = "vss"]
            /\ rt' = [rt EXCEPT ![i] = RetryBegin(NameVss)]
            /\ pc' = [pc EXCEPT ![i] = "attempt"]
            /\ res' = res
            /\ hist' = [hist EXCEPT ![i].vssArgs = <<SOURCE_PATH, DestinationPath>>]
       ELSE /\ pc' = [pc EXCEPT ![i] = "cap_ret"]
            /\ res' = [res EXCEPT ![i] = TRUE]
            /\ hist' = [hist EXCEPT ![i] = [@ EXCEPT !.clean = FALSE, !.cap = "failed"]]
            /\ UNCHANGED <<stage, rt>>
    /\ UNCHANGED <<isRefreshInProgress, sqlPool, env, sched, rtIn, ret>>

\* lines 231-237: the source is probed, copyFileWithVSS is called
CapAccess(i) ==
    /\ Running
    /\ pc[i] = "cap_access"
    /\ IF CheckFileAccessibility(srcOK)
       THEN /\ stage' = [stage EXCEPT ![i] = "vss"]
            /\ rt' = [rt EXCEPT ![i] = RetryBegin(NameVss)]
            /\ pc' = [pc EXCEPT ![i] = "attempt"]
            /\ res' = res
            /\ hist' = [hist EXCEPT ![i].vssArgs = <<SOURCE_PATH, DestinationPath>>]
       ELSE \* line 232 thrown to lines 254-256
            /\ pc' = [pc EXCEPT ![i] = "cap_ret"]
            /\ res' = [res EXCEPT ![i] = FALSE]
            /\ hist' = [hist EXCEPT ![i] = [@ EXCEPT !.clean = FALSE, !.cap = "failed"]]
            /\ UNCHANGED <<stage, rt>>
    /\ UNCHANGED <<isRefreshInProgress, sqlPool, env, sched, rtIn, ret>>

\* lines 99-101 and 138-140
CopyAccess(i) ==
    /\ Running
    /\ pc[i] = "access"
    /\ stage[i] \in {"vss", "fallback"}
    /\ IF CheckFileAccessibility(srcOK)
       THEN Step(i, IF stage[i] = "vss" THEN "shadow" ELSE "mkdir", hist[i])
       ELSE Reject(i, ErrSource, hist[i])
    /\ UNCHANGED <<isRefreshInProgress, sqlPool, env, sched, stage, ret>>

\* lines 103-120: the snapshot command prints a path, prints nothing, or fails
VssShadow(i) ==
    /\ Running
    /\ pc[i] = "shadow"
    /\ stage[i] = "vss"
    /\ \E out \in {"path", "empty", "failed"} :
          CASE out = "path" -> Step(i, "mkdir", hist[i])
            [] out = "empty" -> Reject(i, ErrShadow, hist[i])
            [] out = "failed" -> Reject(i, ErrExec, hist[i])
    /\ UNCHANGED <<isRefreshInProgress, sqlPool, env, sched, stage, ret>>

\* lines 122 and 142
CopyMkdir(i) ==
    /\ Running
    /\ pc[i] = "mkdir"
    /\ stage[i] \in {"vss", "fallback"}
    /\ \E ok \in BOOLEAN :
          IF ok
          THEN /\ destDir' = TRUE
               /\ Step(i, "copy", [hist[i] EXCEPT !.mkdir = TRUE])
          ELSE /\ destDir' = destDir
               /\ Reject(i, ErrMkdir, hist[i])
    /\ UNCHANGED <<isRefreshInProgress, sqlPool, db, srcOK, destFile, sched, stage, ret>>

\* The direct copy reads the source itself; the snapshot copy reads the snapshot.
CopyOutcomes(s, readable) ==
    IF s = "fallback" /\ ~readable THEN {FALSE} ELSE {TRUE, FALSE}

\* lines 123 and 143-144
CopyFile(i) ==
    /\ Running
    /\ pc[i] = "copy"
    /\ stage[i] \in {"vss", "fallback"}
    /\ destDir
    /\ \E ok \in CopyOutcomes(stage[i], srcOK) :
          IF ok
          THEN /\ destFile' = TRUE
               /\ IF stage[i] = "vss"
                  THEN Step(i, "cleanup", [hist[i] EXCEPT !.copy = TRUE])
                  ELSE Resolve(i, TRUE, [hist[i] EXCEPT !.copy = TRUE])
          ELSE /\ destFile' = destFile
               /\ Reject(i, ErrCopy, [hist[i] EXCEPT !.copy = TRUE])
    /\ UNCHANGED <<isRefreshInProgress, sqlPool, db, srcOK, destDir, sched, stage, ret>>

\* lines 126-132: the snapshot is deleted
VssCleanup(i) ==
    /\ Running
    /\ pc[i] = "cleanup"
    /\ stage[i] = "vss"
    /\ \E ok \in BOOLEAN :
          IF ok
          THEN Resolve(i, TRUE, hist[i])
          ELSE Reject(i, ErrExec, hist[i])
    /\ UNCHANGED <<isRefreshInProgress, sqlPool, env, sched, stage, ret>>

\* lines 237/240 and 243-244: a copy returned true, calculateFileHash is called
CopyReturn(i) ==
    /\ Running
    /\ pc[i] = "retOK"
    /\ stage[i] \in {"vss", "fallback"}
    /\ res[i]
    /\ hist' = [hist EXCEPT ![i] = IF stage[i] = "vss"
                                   THEN [@ EXCEPT !.vss = "ok"]
                                   ELSE [@ EXCEPT !.fb = "ok"]]
    /\ stage' = [stage EXCEPT ![i] = "hash"]
    /\ rt' = [rt EXCEPT ![i] = RetryBegin(NameHash)]
    /\ pc' = [pc EXCEPT ![i] = "attempt"]
    /\ res' = [res EXCEPT ![i] = FALSE]
    /\ UNCHANGED <<isRefreshInProgress, sqlPool, env, sched, rtIn, ret>>

\* Variant of VssThrow: an exhausted snapshot copy ends the transfer.
VssThrowNoFallback(i) ==
    /\ Running
    /\ pc[i] = "exhausted"
    /\ stage[i] = "vss"
    /\ hist' = [hist EXCEPT ![i] = [@ EXCEPT !.vss = "exhausted", !.cap = "failed"]]
    /\ stage' = [stage EXCEPT ![i] = "cap"]
    /\ rt' = [rt EXCEPT ![i] = NoFrame]
    /\ pc' = [pc EXCEPT ![i] = "cap_ret"]
    /\ res' = [res EXCEPT ![i] = FALSE]
    /\ UNCHANGED <<isRefreshInProgress, sqlPool, env, sched, rtIn, ret>>

\* lines 238-240: the snapshot copy is exhausted, fallbackCopy is called
VssThrow(i) ==
    /\ Running
    /\ pc[i] = "exhausted"
    /\ stage[i] = "vss"
    /\ hist' = [hist EXCEPT ![i] = [@ EXCEPT !.vss = "exhausted",
                                             !.fbArgs = <<SOURCE_PATH, DestinationPath>>]]
    /\ stage' = [stage EXCEPT ![i] = "fallback"]
    /\ rt' = [rt EXCEPT ![i] = RetryBegin(NameFallback)]
    /\ pc' = [pc EXCEPT ![i] = "attempt"]
    /\ UNCHANGED <<isRefreshInProgress, sqlPool, env, sched, rtIn, res, ret>>

\* lines 90-93
HashRead(i) ==
    /\ Running
    /\ pc[i] = "read"
    /\ stage[i] = "hash"
    /\ \E ok \in (IF srcOK THEN {TRUE, FALSE} ELSE {FALSE}) :
          IF ok
          THEN Resolve(i, TRUE, [hist[i] EXCEPT !.read = TRUE])
          ELSE Reject(i, ErrRead, [hist[i] EXCEPT !.read = TRUE])
    /\ UNCHANGED <<isRefreshInProgress, sqlPool, env, sched, stage, ret>>

\* lines 244-250: the hash is known, success is returned
HashReturn(i) ==
    /\ Running
    /\ pc[i] = "retOK"
    /\ stage[i] = "hash"
    /\ stage' = [stage EXCEPT ![i] = "cap"]
    /\ rt' = [rt EXCEPT ![i] = NoFrame]
    /\ pc' = [pc EXCEPT ![i] = "cap_ret"]
    /\ res' = [res EXCEPT ![i] = TRUE]
    /\ hist' = [hist EXCEPT ![i] = [@ EXCEPT !.hash = "ok", !.cap = "ok"]]
    /\ UNCHANGED <<isRefreshInProgress, sqlPool, env, sched, rtIn, ret>>

\* line 75 thrown by fallbackCopy or calculateFileHash to lines 254-256
CapCatch(i) ==
    /\ Running
    /\ pc[i] = "exhausted"
    /\ stage[i] \in {"fallback", "hash"}
    /\ hist' = [hist EXCEPT ![i] = IF stage[i] = "fallback"
                                   THEN [@ EXCEPT !.fb = "exhausted", !.cap = "failed"]
                                   ELSE [@ EXCEPT !.hash = "exhausted", !.cap = "failed"]]
    /\ stage' = [stage EXCEPT ![i] = "cap"]
    /\ rt' = [rt EXCEPT ![i] = NoFrame]
    /\ pc' = [pc EXCEPT ![i] = "cap_ret"]
    /\ res' = [res EXCEPT ![i] = FALSE]
    /\ UNCHANGED <<isRefreshInProgress, sqlPool, env, sched, rtIn, ret>>

\* Variant of RefreshAfterCopy: createDatabase is called whatever the transfer
\* returned.
RefreshAfterCopyIgnoresResult(i) ==
    /\ Running
    /\ pc[i] = "cap_ret"
    /\ stage' = [stage EXCEPT ![i] = "create"]
    /\ rt' = [rt EXCEPT ![i] = RetryBegin(NameCreate)]
    /\ pc' = [pc EXCEPT ![i] = "attempt"]
    /\ res' = [res EXCEPT ![i] = FALSE]
    /\ UNCHANGED <<isRefreshInProgress, sqlPool, env, sched, rtIn, ret, hist>>

\* lines 277-285: copyAndPrepareDatabase returned
RefreshAfterCopy(i) ==
    /\ Running
    /\ pc[i] = "cap_ret"
    /\ IF res[i]
       THEN /\ stage' = [stage EXCEPT ![i] = "create"]
            /\ rt' = [rt EXCEPT ![i] = RetryBegin(NameCreate)]
            /\ pc' = [pc EXCEPT ![i] = "attempt"]
            /\ ret' = ret
       ELSE /\ stage' = [stage EXCEPT ![i] = "none"]
            /\ rt' = rt
            /\ pc' = [pc EXCEPT ![i] = "r_end"]
            /\ ret' = [ret EXCEPT ![i] = "false"]
    /\ res' = [res EXCEPT ![i] = FALSE]
    /\ UNCHANGED <<isRefreshInProgress, sqlPool, env, sched, rtIn, hist>>

-----------------------------------------------------------------------------
(* createDatabase, lines 188-223.                                          *)

\* What an attach statement can answer and leave behind.
AttachOutcomes(pool, d) ==
    IF pool # "open"
    THEN {[ok |-> FALSE, err |-> ErrQuery, db |-> d]}
    ELSE IF d = "ATTACHED"
    THEN {[ok |-> FALSE, err |-> ErrExists, db |-> d],
          [ok |-> FALSE, err |-> ErrQuery, db |-> d]}
    ELSE {[ok |-> TRUE, err |-> <<>>, db |-> "ATTACHED"],
          [ok |-> FALSE, err |-> ErrCouldNotOpen, db |-> d],
          [ok |-> FALSE, err |-> ErrQuery, db |-> d],
          [ok |-> FALSE, err |-> ErrQuery, db |-> "ATTACHED"]}

\* Variant of IsCouldNotOpen: every error of the standard attach is taken for
\* the recognized one.
IsCouldNotOpenAnyError(e) == TRUE

\* line 206
IsCouldNotOpen(e) == Includes(e, "Could not open new database")

\* lines 190-194: the copied file is probed, the pool is ensured
CreateAccess(i) ==
    /\ Running
    /\ pc[i] = "access"
    /\ stage[i] = "create"
    /\ \E o \in InitializeSqlPool(sqlPool) :
          /\ sqlPool' = o.pool
          /\ IF ~CheckFileAccessibility(destFile)
             THEN Reject(i, ErrMdf, hist[i])
             ELSE IF ~o.ok
             THEN Reject(i, o.err, hist[i])
             ELSE Step(i, "attach", hist[i])
    /\ UNCHANGED <<isRefreshInProgress, env, sched, stage, ret>>

\* lines 196-208 and 216-221: the standard attach
CreateAttach(i) ==
    /\ Running
    /\ pc[i] = "attach"
    /\ stage[i] = "create"
    /\ \E o \in AttachOutcomes(sqlPool, db) :
          /\ db' = o.db
          /\ LET h == [hist[i] EXCEPT !.createQ = TRUE, !.attStd = @ + 1,
                                       !.attStdErr = o.err]
             IN IF o.ok
                THEN Resolve(i, TRUE, h)
                ELSE IF IsCouldNotOpen(o.err)
                THEN Step(i, "force", [h EXCEPT !.clean = FALSE])
                ELSE Reject(i, o.err, h)
    /\ UNCHANGED <<isRefreshInProgress, sqlPool, srcOK, destDir, destFile, sched, stage, ret>>

\* lines 209-215 and 221: the forced-rebuild attach
CreateForce(i) ==
    /\ Running
    /\ pc[i] = "force"
    /\ stage[i] = "create"
    /\ \E o \in AttachOutcomes(sqlPool, db) :
          /\ db' = o.db
          /\ IF o.ok
             THEN Resolve(i, TRUE, [hist[i] EXCEPT !.attForce = @ + 1])
             ELSE Reject(i, o.err, [hist[i] EXCEPT !.attForce = @ + 1])
    /\ UNCHANGED <<isRefreshInProgress, sqlPool, srcOK, destDir, destFile, sched, stage, ret>>

\* lines 279-281: the database is attached, true is returned
CreateReturn(i) ==
    /\ Running
    /\ pc[i] = "retOK"
    /\ stage[i] = "create"
    /\ stage' = [stage EXCEPT ![i] = "none"]
    /\ rt' = [rt EXCEPT ![i] = NoFrame]
    /\ pc' = [pc EXCEPT ![i] = "r_end"]
    /\ ret' = [ret EXCEPT ![i] = "true"]
    /\ res' = [res EXCEPT ![i] = FALSE]
    /\ hist' = [hist EXCEPT ![i].create = "ok"]
    /\ UNCHANGED <<isRefreshInProgress, sqlPool, env, sched, rtIn>>

-----------------------------------------------------------------------------
\* The source file appears or disappears (it is produced by another system).
EnvSource ==
    /\ Running
    /\ srcOK' = ~srcOK
    /\ hist' = [i \in Tasks |-> IF pc[i] \notin {"idle", "skip"}
                                THEN [hist[i] EXCEPT !.srcSeen = TRUE]
                                ELSE hist[i]]
    /\ UNCHANGED <<isRefreshInProgress, sqlPool, db, destDir, destFile, sched, pc, stage,
                   rt, rtIn, res, ret>>

TaskStep(i) ==
    \/ Tick(i)
    \/ RefreshSkipReturn(i) \/ RefreshBegin(i) \/ RefreshReturn(i)
    \/ RetryAttempt(i) \/ RetryDelay(i)
    \/ ExistsQuery(i) \/ ExistsReturn(i) \/ RefreshCatch(i)
    \/ DropCallExists(i) \/ DropExistsReturn(i) \/ DropExistsThrow(i)
    \/ DropQuery(i) \/ DropReturn(i)
    \/ CapAccess(i) \/ CopyAccess(i) \/ VssShadow(i) \/ CopyMkdir(i) \/ CopyFile(i)
    \/ VssCleanup(i) \/ CopyReturn(i) \/ VssThrow(i)
    \/ HashRead(i) \/ HashReturn(i) \/ CapCatch(i) \/ RefreshAfterCopy(i)
    \/ CreateAccess(i) \/ CreateAttach(i) \/ CreateForce(i) \/ CreateReturn(i)

Next ==
    \/ MainInitPool
    \/ MainFatalExit
    \/ EnvSource
    \/ \E i \in Tasks : TaskStep(i)

Spec == Init /\ [][Next]_vars

-----------------------------------------------------------------------------
(* Shutdown: the handlers of lines 306-322 and cleanup, lines 294-303.     *)

\* line 296: cleanup closes the pool when the variable holds one; nothing
\* ever resets the variable, so a closed pool is closed again
CleanupCloses(pool) == pool # "null"

\* lines 306-307, 312-313, 318-319: event k is delivered and its handler
\* starts writing its log line
Signal(k) ==
    /\ Running
    /\ hpc[k] = "idle"
    /\ Cardinality({h \in Handlers : hpc[h] # "idle"}) < MaxSignals
    /\ hpc' = [hpc EXCEPT ![k] = "log"]
    /\ UNCHANGED <<isRefreshInProgress, sqlPool, env, proc, mainPc, timerOn, pc, stage,
                   rt, rtIn, res, ret, hist, calls, closes, stmts>>

\* lines 308 and 295-297: cleanup is called and invokes sqlPool.close(); with
\* no pool it returns and the handler exits (lines 309, 315, 321)
HandlerCleanup(k) ==
    /\ Running
    /\ hpc[k] = "log"
    /\ IF CleanupCloses(sqlPool)
       THEN /\ sqlPool' = "closed"
            /\ closes' = closes + 1
            /\ hpc' = [hpc EXCEPT ![k] = "close"]
            /\ proc' = proc
       ELSE /\ hpc' = [hpc EXCEPT ![k] = "exit"]
            /\ proc' = "exited"
            /\ UNCHANGED <<sqlPool, closes>>
    /\ UNCHANGED <<isRefreshInProgress, env, mainPc, timerOn, pc, stage, rt, rtIn, res,
                   ret, hist, calls, stmts>>

\* lines 298-302 and 309, 315, 321: close has resolved or rejected, the result
\* is logged and process.exit is called
HandlerExit(k) ==
    /\ Running
    /\ hpc[k] = "close"
    /\ hpc' = [hpc EXCEPT ![k] = "exit"]
    /\ proc' = "exited"
    /\ UNCHANGED <<isRefreshInProgress, sqlPool, env, mainPc, timerOn, pc, stage, rt,
                   rtIn, res, ret, hist, calls, closes, stmts>>

NextShutdown ==
    \/ MainInitPool
    \/ MainFatalExit
    \/ \E i \in Tasks : TaskStep(i)
    \/ \E k \in Handlers : Signal(k) \/ HandlerCleanup(k) \/ HandlerExit(k)

\* The program with the events that shut it down; the source file stays as it
\* is found.
SpecShutdown == Init /\ [][NextShutdown]_vars

\* The steps of the program alone, the source file staying as it is found.
NextProgram ==
    \/ MainInitPool
    \/ MainFatalExit
    \/ \E i \in Tasks : TaskStep(i)

\* Every external operation a task waits for eventually returns, and the
\* interval timer keeps firing (lines 332-339): every task keeps taking steps.
SpecLive == Init /\ [][NextProgram]_vars /\ \A i \in Tasks : WF_vars(TaskStep(i))

-----------------------------------------------------------------------------
(* dropDatabase exercised alone: it is called MaxDropCalls times in a row, *)
(* from either state of the database, the pool being open as it is         *)
(* whenever refreshDatabase runs.                                          *)

\* dropDatabase is called: line 163
DropBegin(i) ==
    /\ stage' = [stage EXCEPT ![i] = "drop"]
    /\ rt' = [rt EXCEPT ![i] = RetryBegin(NameDrop)]
    /\ rtIn' = [rtIn EXCEPT ![i] = NoFrame]
    /\ pc' = [pc EXCEPT ![i] = "attempt"]
    /\ res' = [res EXCEPT ![i] = FALSE]

InitDrop ==
    /\ isRefreshInProgress = FALSE
    /\ sqlPool = "open"
    /\ db \in {"ABSENT", "ATTACHED"}
    /\ srcOK = TRUE
    /\ destDir = FALSE
    /\ destFile = FALSE
    /\ proc = "running"
    /\ mainPc = "drop"
    /\ timerOn = FALSE
    /\ pc = [i \in Tasks |-> IF i = Startup THEN "attempt" ELSE "idle"]
    /\ stage = [i \in Tasks |-> IF i = Startup THEN "drop" ELSE "none"]
    /\ rt = [i \in Tasks |-> IF i = Startup THEN RetryBegin(NameDrop) ELSE NoFrame]
    /\ rtIn = [i \in Tasks |-> NoFrame]
    /\ res = [i \in Tasks |-> FALSE]
    /\ ret = [i \in Tasks |-> "none"]
    /\ hist = [i \in Tasks |-> [HistInit EXCEPT !.startDb = db]]
    /\ calls = 1
    /\ stmts = NoStmts
    /\ hpc = [k \in Handlers |-> "idle"]
    /\ closes = 0

\* The call has returned or thrown; dropDatabase is called again.
DropAgain(i) ==
    /\ pc[i] \in {"retOK", "exhausted"}
    /\ stage[i] = "drop"
    /\ calls < MaxDropCalls
    /\ calls' = calls + 1
    /\ stmts' = NoStmts
    /\ DropBegin(i)
    /\ hist' = [hist EXCEPT ![i] = [HistInit EXCEPT !.startDb = db]]
    /\ UNCHANGED <<isRefreshInProgress, sqlPool, env, proc, mainPc, timerOn, ret, shut>>

NextDrop ==
    \/ RetryAttempt(Startup)
    \/ RetryDelay(Startup)
    \/ ExistsQuery(Startup)
    \/ DropCallExists(Startup)
    \/ DropExistsReturn(Startup)
    \/ DropExistsThrow(Startup)
    \/ DropQuery(Startup)
    \/ DropAgain(Startup)

SpecDrop == InitDrop /\ [][NextDrop]_vars

-----------------------------------------------------------------------------
(* Properties.                                                             *)

\* Task i is past the test of line 261: it is running a refresh cycle.
InCycle(i) == pc[i] \notin {"idle", "skip"}

\* Task i's call of refreshDatabase ends in this step.
Returns(i) == pc[i] \in {"skip", "r_end"} /\ pc'[i] = "idle"

\* C1: at any time at most one call of refreshDatabase is past the
\* isRefreshInProgress test, whatever the interleaving of the startup call
\* and the timer callbacks.
C1_SingleFlight == Cardinality({i \in Tasks : InCycle(i)}) <= 1

\* A timer callback found a cycle running and is being skipped.
C1_Witness == \E i, j \in Tasks : InCycle(i) /\ pc[j] = "skip"

NoEffects(h) ==
    /\ ~h.existsQ /\ ~h.dropQ /\ ~h.mkdir /\ ~h.copy /\ ~h.read /\ ~h.createQ
    /\ h.exists = "none" /\ h.drop = "none" /\ h.vss = "none" /\ h.fb = "none"
    /\ h.hash = "none" /\ h.cap = "none" /\ h.create = "none"

\* C2: a call of refreshDatabase made while a cycle is in progress is skipped:
\* it returns false, issues no query, drop, copy, hash or create, and its steps
\* leave isRefreshInProgress, the pool, the database and the files unchanged.
C2_SkippedCallHasNoEffect ==
    /\ [](\A i \in Tasks :
             pc[i] = "skip" =>
                /\ ret[i] = "false"
                /\ NoEffects(hist[i])
                /\ stage[i] = "none" /\ rt[i] = NoFrame /\ rtIn[i] = NoFrame)
    /\ [][\A i \in Tasks :
             (isRefreshInProgress /\ pc[i] = "idle" /\ pc'[i] # "idle") =>
                /\ pc'[i] = "skip"
                /\ UNCHANGED <<isRefreshInProgress, sqlPool, env>>]_vars
    /\ [][\A i \in Tasks :
             (pc[i] = "skip" /\ pc'[i] # "skip") =>
                /\ pc'[i] = "idle"
                /\ UNCHANGED <<isRefreshInProgress, sqlPool, env>>]_vars

\* A skipped call is about to return while the cycle it met is still running.
C2_Witness == \E i, j \in Tasks : pc[i] = "skip" /\ InCycle(j) /\ isRefreshInProgress

\* C3 as stated: whenever any call of refreshDatabase returns, the flag is false.
C3_AnyReturnLeavesFlagClear ==
    [][\A i \in Tasks : Returns(i) => ~isRefreshInProgress']_vars

\* C3, amended: whenever a call of refreshDatabase that ran a cycle returns,
\* with true or false, the flag is false and a later call may start a cycle;
\* the flag is never true while no cycle is running.
C3_CycleReturnLeavesFlagClear ==
    /\ [][\A i \in Tasks :
             (Returns(i) /\ ~hist[i].skipped) =>
                /\ ~isRefreshInProgress'
                /\ MayStartCycle(isRefreshInProgress')]_vars
    /\ [](isRefreshInProgress => \E i \in Tasks : InCycle(i))

\* A failed cycle is about to return.
C3_Witness == \E i \in Tasks : pc[i] = "r_end" /\ ret[i] = "false" /\ ~hist[i].clean

\* C4: a retry-wrapped operation that fails N-1 times and then succeeds, with
\* 1 <= N <= MAX_RETRY_ATTEMPTS, has been run N times, N attempt-start lines and
\* N-1 failure lines have been logged, and withRetry returns the operation's value.
C4_RetrySucceedsOnNth ==
    \A i \in Tasks :
        pc[i] = "retOK" =>
            LET f == Frame(i)
                n == f.opFails + 1
            IN /\ n \in 1..MAX_RETRY_ATTEMPTS
               /\ f.runs = n
               /\ f.starts = n
               /\ f.fails = n - 1
               /\ f.oks = 1
               /\ res[i] = f.opValue

\* An operation succeeded on its last attempt after failing on all the others.
C4_Witness ==
    \E i \in Tasks : pc[i] = "retOK" /\ Frame(i).opFails = MAX_RETRY_ATTEMPTS - 1

IsSuffix(t, e) ==
    /\ Len(t) <= Len(e)
    /\ SubSeq(e, Len(e) - Len(t) + 1, Len(e)) = t

\* C5: a retry-wrapped operation that fails on every attempt is run
\* MAX_RETRY_ATTEMPTS times and never more; withRetry then throws an error whose
\* message ends with the message of the last failure, having waited only
\* between attempts.
C5_RetryExhausts ==
    /\ \A i \in Tasks :
          pc[i] = "exhausted" =>
              LET f == Frame(i)
              IN /\ f.runs = MAX_RETRY_ATTEMPTS
                 /\ f.opFails = MAX_RETRY_ATTEMPTS
                 /\ f.fails = MAX_RETRY_ATTEMPTS
                 /\ f.waits = MAX_RETRY_ATTEMPTS - 1
                 /\ f.oks = 0
                 /\ f.opError # <<>>
                 /\ RetryExhaustedError(f)[1] = f.name
                 /\ IsSuffix(f.opError, RetryExhaustedError(f))
    /\ \A i \in Tasks :
          /\ rt[i].runs <= MAX_RETRY_ATTEMPTS
          /\ rtIn[i].runs <= MAX_RETRY_ATTEMPTS

\* The snapshot copy is exhausted, its last failure being the copy itself.
C5_Witness ==
    \E i \in Tasks : pc[i] = "exhausted" /\ stage[i] = "vss" /\ rt[i].opError = ErrCopy

\* A call of dropDatabase by task i has ended: it returned or threw.
DropEnded(i) == stage[i] = "drop" /\ pc[i] \in {"retOK", "exhausted"}

\* C6 as stated: dropDatabase called when the database does not exist returns
\* success, issues no drop statement and leaves the database ABSENT, at every
\* call.
C6_DropWhenAbsentSucceeds ==
    \A i \in Tasks :
        (DropEnded(i) /\ hist[i].startDb = "ABSENT") =>
            /\ pc[i] = "retOK" /\ res[i] = TRUE
            /\ ~hist[i].dropQ
            /\ db = "ABSENT"

\* C6, amended: dropDatabase called when the database does not exist never
\* issues the drop statement and leaves the database ABSENT, at every call; it
\* returns success unless the existence check was exhausted in each of its
\* attempts, and then throws that failure.
C6_DropWhenAbsentIsNoOp ==
    \A i \in Tasks :
        (stage[i] \in {"drop", "dropExists"} /\ hist[i].startDb = "ABSENT") =>
            /\ ~hist[i].dropQ
            /\ db = "ABSENT"
            /\ pc[i] # "d_query"
            /\ (DropEnded(i) /\ pc[i] = "retOK") => res[i] = TRUE
            /\ (DropEnded(i) /\ pc[i] = "exhausted") =>
                   /\ rt[i].opError[1] = NameExists
                   /\ IsSuffix(ErrQuery, rt[i].opError)

\* The last of the calls made with the database absent from the first one on
\* has returned success.
C6_Witness ==
    /\ calls = MaxDropCalls
    /\ DropEnded(Startup) /\ pc[Startup] = "retOK" /\ res[Startup]
    /\ hist[Startup].startDb = "ABSENT"
    /\ hist[Startup].existsQ

\* C7 as stated: when the snapshot copy is exhausted the direct copy is tried
\* with the same arguments and the transfer succeeds exactly when the direct
\* copy does.
C7_TransferReflectsDirectCopy ==
    \A i \in Tasks :
        (pc[i] = "cap_ret" /\ hist[i].vss = "exhausted") =>
            /\ hist[i].fb \in {"ok", "exhausted"}
            /\ hist[i].fbArgs = hist[i].vssArgs
            /\ res[i] = (hist[i].fb = "ok")

\* C7, amended: when the snapshot copy is exhausted the direct copy is tried
\* with the same arguments; the transfer succeeds exactly when the direct copy
\* succeeds and the source hash is then computed, and fails when the direct
\* copy is exhausted or the hash calculation is.
C7_TransferReflectsDirectCopyAndHash ==
    \A i \in Tasks :
        (pc[i] = "cap_ret" /\ hist[i].vss = "exhausted") =>
            /\ hist[i].fb \in {"ok", "exhausted"}
            /\ hist[i].fbArgs = hist[i].vssArgs
            /\ hist[i].fbArgs = <<SOURCE_PATH, DestinationPath>>
            /\ res[i] = (hist[i].fb = "ok" /\ hist[i].hash = "ok")
            /\ hist[i].fb = "exhausted" => ~res[i]

\* The transfer succeeded through the direct copy.
C7_Witness ==
    \E i \in Tasks :
        pc[i] = "cap_ret" /\ hist[i].vss = "exhausted" /\ hist[i].fb = "ok" /\ res[i]

\* A step of task i's cycle has failed for good.
StepFailed(h) ==
    \/ h.exists = "exhausted"
    \/ h.drop = "exhausted"
    \/ h.cap = "failed"
    \/ h.create = "exhausted"

\* C8: refreshDatabase never throws to its caller: a cycle in which a step
\* failed (existence check, drop, copy, hash or create, retries exhausted)
\* ends by returning false, and the startup code and the timer callback never
\* see an exception from it.
C8_RefreshNeverThrows ==
    /\ \A i \in Tasks :
          /\ ret[i] # "threw"
          /\ (pc[i] = "r_end" /\ StepFailed(hist[i])) => ret[i] = "false"
          /\ (InCycle(i) /\ StepFailed(hist[i])) => pc[i] \in {"cap_ret", "r_end"}
    /\ mainPc = "fatal" => sqlPool = "null"

\* A cycle whose createDatabase was exhausted is about to return.
C8_Witness ==
    \E i \in Tasks : pc[i] = "r_end" /\ hist[i].create = "exhausted" /\ ret[i] = "false"

\* C9: refreshDatabase returns true only when every step of that cycle
\* succeeded: the existence check answered, the drop succeeded if the database
\* was found, a copy (snapshot or direct) succeeded, the hash was computed and
\* createDatabase succeeded; the database is then ATTACHED.
C9_TrueOnlyIfAllStepsSucceeded ==
    \A i \in Tasks :
        (pc[i] = "r_end" /\ ret[i] = "true") =>
            LET h == hist[i]
            IN /\ h.exists \in {"found", "absent"}
               /\ h.exists = "found" => h.drop = "ok"
               /\ h.exists = "absent" => (h.drop = "none" /\ ~h.dropQ)
               /\ h.vss = "ok" \/ h.fb = "ok"
               /\ h.copy /\ destFile
               /\ h.hash = "ok" /\ h.cap = "ok"
               /\ h.create = "ok" /\ h.createQ
               /\ ~StepFailed(h)
               /\ db = "ATTACHED"

\* A cycle that dropped the database, copied directly and attached is about
\* to return true.
C9_Witness ==
    \E i \in Tasks :
        /\ pc[i] = "r_end" /\ ret[i] = "true"
        /\ hist[i].exists = "found" /\ hist[i].fb = "ok"

\* C10: a cycle that starts with the destination directory and the database
\* absent and in which no call to a collaborator fails (so the source file is
\* present) creates the directory, copies the file, issues no drop statement,
\* creates the database and returns true; the existence query then answers
\* true.
C10_FreshInstallScenario ==
    \A i \in Tasks :
        (pc[i] = "r_end" /\ hist[i].clean
            /\ hist[i].startDb = "ABSENT" /\ ~hist[i].startDir) =>
            LET h == hist[i]
            IN /\ ret[i] = "true"
               /\ h.mkdir /\ destDir
               /\ h.copy /\ destFile /\ h.vss = "ok"
               /\ ~h.dropQ
               /\ h.createQ /\ h.create = "ok"
               /\ db = "ATTACHED"
               /\ ExistsResult(db)

\* Such a cycle is about to return.
C10_Witness ==
    \E i \in Tasks :
        /\ pc[i] = "r_end" /\ hist[i].clean
        /\ hist[i].startDb = "ABSENT" /\ ~hist[i].startDir
        /\ ret[i] = "true"

\* C11 as stated: in a cycle throughout which the source file is missing,
\* copyAndPrepareDatabase returns failure, createDatabase is never invoked,
\* refreshDatabase returns false, and a database that existed when the cycle
\* began has been dropped and is left ABSENT.
C11_SourceMissingLeavesDropped ==
    \A i \in Tasks :
        /\ (InCycle(i) /\ ~hist[i].srcSeen) =>
               /\ stage[i] # "create"
               /\ ~hist[i].createQ /\ hist[i].create = "none"
        /\ (pc[i] = "r_end" /\ ~hist[i].srcSeen) =>
               /\ ret[i] = "false"
               /\ hist[i].cap = "failed"
               /\ hist[i].startDb = "ATTACHED" =>
                      (hist[i].dropQ /\ hist[i].drop = "ok" /\ db = "ABSENT")

\* C11, amended: in a cycle throughout which the source file is missing,
\* createDatabase is never invoked and refreshDatabase returns false; when the
\* existence check answered and the drop of a database it found succeeded,
\* copyAndPrepareDatabase returns failure without copying and a database that
\* existed when the cycle began has been dropped and is left ABSENT; otherwise
\* the existence check or the drop was exhausted and copyAndPrepareDatabase
\* was not called.
C11_SourceMissingNeverCreates ==
    \A i \in Tasks :
        /\ (InCycle(i) /\ ~hist[i].srcSeen) =>
               /\ stage[i] \notin {"create", "vss", "fallback", "hash"}
               /\ ~hist[i].createQ /\ hist[i].create = "none"
               /\ ~hist[i].copy /\ ~hist[i].read
        /\ (pc[i] = "r_end" /\ ~hist[i].srcSeen) =>
               LET h == hist[i]
               IN /\ ret[i] = "false"
                  /\ h.cap \in {"failed", "none"}
                  /\ h.cap = "none" <=> (h.exists = "exhausted" \/ h.drop = "exhausted")
                  /\ (h.cap = "failed" /\ h.startDb = "ATTACHED") =>
                         (h.exists = "found" /\ h.dropQ /\ h.drop = "ok" /\ db = "ABSENT")
                  /\ (h.cap = "failed" /\ h.startDb = "ABSENT") =>
                         (h.exists = "absent" /\ ~h.dropQ /\ db = "ABSENT")

\* A cycle that found the database, dropped it and then found no source file is
\* about to return.
C11_Witness ==
    \E i \in Tasks :
        /\ pc[i] = "r_end" /\ ~hist[i].srcSeen
        /\ hist[i].startDb = "ATTACHED" /\ hist[i].drop = "ok" /\ hist[i].cap = "failed"

\* The current attempt of the retry-wrapped function task i is in is over.
AttemptEnded(i) == pc[i] \in {"retOK", "delay", "exhausted"}

\* C12: within each attempt of createDatabase the standard attach is issued
\* first and once; the forced-rebuild attach is issued exactly once in that
\* attempt if and only if the standard attach of that attempt was rejected with
\* the "Could not open new database" error; any other rejection fails the
\* attempt with that error and no forced-rebuild attach; every later attempt
\* starts again from the standard attach.
C12_ForcedAttachOnlyOnRecognizedError ==
    \A i \in Tasks :
        stage[i] = "create" =>
            LET h == hist[i]
                recognized == /\ h.attStd = 1
                              /\ Includes(h.attStdErr, "Could not open new database")
            IN /\ h.attStd \in {0, 1} /\ h.attForce \in {0, 1}
               /\ h.attForce = 1 => recognized
               /\ pc[i] \in {"access", "attach"} =>
                      (h.attStd = 0 /\ h.attForce = 0)
               /\ pc[i] = "force" => (recognized /\ h.attForce = 0)
               /\ AttemptEnded(i) =>
                      /\ h.attForce = (IF recognized THEN 1 ELSE 0)
                      /\ (h.attStdErr # <<>> /\ ~recognized) =>
                             /\ pc[i] # "retOK"
                             /\ rt[i].opError = h.attStdErr

\* A later attempt of createDatabase issued the standard attach again, was
\* rejected with the recognized error and issued the forced-rebuild attach.
C12_Witness ==
    \E i \in Tasks :
        /\ stage[i] = "create" /\ AttemptEnded(i)
        /\ rt[i].attempt > 1 /\ rt[i].opFails > 0
        /\ hist[i].attStd = 1 /\ hist[i].attForce = 1

\* C13: once the scheduler has started the timer is never cancelled, whatever
\* the outcome of the startup cycle and of the cycles run by ticks; from every
\* moment at which the timer is on, and from every failed cycle about to
\* return, a later tick calls refreshDatabase and starts a new cycle.
C13_FailedCycleNeverStopsTimer ==
    /\ [](mainPc = "started" => timerOn)
    /\ [][timerOn => timerOn']_vars
    /\ (timerOn \/ \E i \in Tasks : pc[i] = "r_end" /\ ret[i] = "false")
           ~> (\E j \in TickSlots : pc[j] = "begin")

\* The scheduler has started and a cycle run by a tick has failed and is about
\* to return.
C13_Witness ==
    \E i \in TickSlots :
        /\ timerOn /\ mainPc = "started"
        /\ pc[i] = "r_end" /\ ret[i] = "false" /\ StepFailed(hist[i])

\* C14: the pool is created at most once (once the variable holds a pool it is
\* never replaced), no step of a refresh cycle closes it, only the shutdown
\* handlers do, and over any sequence and interleaving of shutdown triggers
\* close is invoked on it at most once.
C14_PoolClosedAtMostOnce ==
    /\ [][sqlPool # "null" => sqlPool' # "null"]_vars
    /\ [][(sqlPool = "open" /\ sqlPool' # "open") =>
             \E k \in Handlers : hpc[k] = "log" /\ hpc'[k] = "close"]_vars
    /\ [](closes <= 1)

\* An interrupt or terminate signal has been received.
SignalReceived == \E k \in {"SIGINT", "SIGTERM"} : hpc[k] # "idle"

\* C17: once an interrupt or terminate signal has been received no call of
\* refreshDatabase starts a new cycle, and the exit of the process that the
\* signal leads to does not happen while a cycle is running.
C17_SignalStopsNewCyclesOnly ==
    /\ [][SignalReceived =>
             \A i \in Tasks : ~(pc[i] # "begin" /\ pc'[i] = "begin")]_vars
    /\ [][(SignalReceived /\ proc = "running" /\ proc' = "exited") =>
             \A i \in Tasks : ~InCycle(i)]_vars

\* C15: in an attempt of the snapshot copy whose copy to the destination
\* succeeded, the deletion of the snapshot cannot fail the attempt: whatever
\* the deletion command answers, the attempt ends in success, so it is not
\* retried and leads neither to the direct copy nor to a failed transfer.
C15_SnapshotDeletionIsBestEffort ==
    [][\A i \in Tasks :
          (pc[i] = "cleanup" /\ stage[i] = "vss" /\ pc'[i] # "cleanup") =>
              /\ pc'[i] = "retOK"
              /\ res'[i] = TRUE
              /\ rt'[i].fails = rt[i].fails]_vars

\* The steps of h that come after the existence check have not begun.
NothingAfterExists(h) ==
    /\ ~h.dropQ /\ h.drop = "none"
    /\ ~h.mkdir /\ ~h.copy /\ ~h.read /\ ~h.createQ
    /\ h.vss = "none" /\ h.fb = "none" /\ h.hash = "none" /\ h.cap = "none"
    /\ h.create = "none"

\* The steps of h that come after the drop have not begun.
NothingAfterDrop(h) ==
    /\ ~h.mkdir /\ ~h.copy /\ ~h.read /\ ~h.createQ
    /\ h.vss = "none" /\ h.fb = "none" /\ h.hash = "none" /\ h.cap = "none"
    /\ h.create = "none"

\* The existence check of h has answered and the drop it called for is done.
DropCompleted(h) ==
    /\ h.exists \in {"found", "absent"}
    /\ h.exists = "found" => h.drop = "ok"
    /\ h.exists = "absent" => (h.drop = "none" /\ ~h.dropQ)

\* C16: within a cycle the steps run in the order existence check, drop (only
\* when the database was found), snapshot or direct copy, source hash, create:
\* no copy starts before the drop has completed, no hash before a copy has
\* succeeded, no create before the copy and the hash have succeeded; a step
\* begins only when the one before it has ended, and at any time at most one
\* step of one cycle is running.
C16_StepsInOrder ==
    /\ Cardinality({i \in Tasks : stage[i] # "none"}) <= 1
    /\ \A i \in Tasks :
          LET h == hist[i]
              s == stage[i]
          IN /\ s # "none" => InCycle(i)
             /\ s = "exists" => (h.exists = "none" /\ NothingAfterExists(h))
             /\ s \in {"drop", "dropExists"} => (h.exists = "found" /\ NothingAfterDrop(h))
             /\ h.dropQ => h.exists = "found"
             /\ (s \in {"cap", "vss", "fallback", "hash", "create"}
                  \/ h.mkdir \/ h.copy \/ h.read \/ h.createQ) => DropCompleted(h)
             /\ s \in {"cap", "vss", "fallback", "hash"} => (~h.createQ /\ h.create = "none")
             /\ s = "vss" => (h.vss = "none" /\ h.fb = "none" /\ h.hash = "none" /\ ~h.read)
             /\ s = "fallback" =>
                    (h.vss = "exhausted" /\ h.fb = "none" /\ h.hash = "none" /\ ~h.read)
             /\ (s = "hash" \/ h.read) =>
                    /\ h.vss = "ok" \/ h.fb = "ok"
                    /\ h.copy /\ destFile
             /\ s = "hash" => h.hash = "none"
             /\ (s = "create" \/ h.createQ) =>
                    /\ h.vss = "ok" \/ h.fb = "ok"
                    /\ h.copy /\ h.read
                    /\ h.hash = "ok" /\ h.cap = "ok"

\* A cycle that found the database has dropped it, copied directly, computed
\* the hash and is issuing the attach.
C16_Witness ==
    \E i \in Tasks :
        /\ stage[i] = "create" /\ pc[i] = "attach"
        /\ hist[i].exists = "found" /\ hist[i].drop = "ok" /\ hist[i].fb = "ok"
        /\ hist[i].hash = "ok"

CheckOrDropFailed(h) == h.exists = "exhausted" \/ h.drop = "exhausted"

\* Nothing of the transfer or of the creation has been done in h.
NoTransferNoCreate(h) ==
    /\ ~h.mkdir /\ ~h.copy /\ ~h.read /\ ~h.createQ
    /\ h.vss = "none" /\ h.fb = "none" /\ h.hash = "none" /\ h.cap = "none"
    /\ h.create = "none"

\* C19 as stated: a cycle whose existence check or drop is exhausted copies
\* nothing, computes no hash, issues no create, returns false and leaves the
\* database as it was before the failed step: still ATTACHED when the drop
\* failed.
C19_FailedCheckOrDropChangesNothing ==
    \A i \in Tasks :
        (InCycle(i) /\ CheckOrDropFailed(hist[i])) =>
            /\ pc[i] = "r_end" /\ ret[i] = "false"
            /\ NoTransferNoCreate(hist[i])
            /\ db = hist[i].startDb
            /\ hist[i].drop = "exhausted" => db = "ATTACHED"

\* C19, amended: a cycle whose existence check or drop is exhausted copies
\* nothing, computes no hash, issues no create and returns false; an exhausted
\* existence check leaves the database as it was; after an exhausted drop the
\* database is still ATTACHED unless the server executed a drop statement that
\* was reported as failed, and then it is ABSENT.
C19_FailedCheckOrDropStopsCycle ==
    \A i \in Tasks :
        (InCycle(i) /\ CheckOrDropFailed(hist[i])) =>
            LET h == hist[i]
            IN /\ pc[i] = "r_end" /\ ret[i] = "false"
               /\ NoTransferNoCreate(h)
               /\ h.exists = "exhausted" => (db = h.startDb /\ ~h.dropQ)
               /\ h.drop = "exhausted" =>
                      /\ h.exists = "found" /\ h.startDb = "ATTACHED"
                      /\ db = (IF h.dropLost THEN "ABSENT" ELSE "ATTACHED")
                      /\ h.dropLost => h.dropQ

\* A cycle whose drop statement failed in every attempt, the server executing
\* none of them, is about to return.
C19_Witness ==
    \E i \in Tasks :
        /\ pc[i] = "r_end" /\ hist[i].drop = "exhausted"
        /\ hist[i].dropQ /\ ~hist[i].dropLost /\ db = "ATTACHED"

\* C20: one call of dropDatabase sends the single-user/drop statement at most
\* MAX_RETRY_ATTEMPTS times, at most once in each of its attempts, and the
\* catalog query at most MAX_RETRY_ATTEMPTS * MAX_RETRY_ATTEMPTS times; each
\* attempt starts its existence check afresh, sends the drop statement only
\* after that check answered, and sends none when that check was exhausted.
C20_NestedRetryBounds ==
    /\ [](\A i \in Tasks :
             stage[i] \in {"drop", "dropExists"} =>
                 /\ stmts.drop <= MAX_RETRY_ATTEMPTS
                 /\ stmts.exists <= MAX_RETRY_ATTEMPTS * MAX_RETRY_ATTEMPTS
                 /\ stmts.drop <= rt[i].runs
                 /\ stmts.exists <= MAX_RETRY_ATTEMPTS * rt[i].runs
                 /\ pc[i] = "d_query" => stmts.drop < rt[i].runs)
    /\ [][\A i \in Tasks :
             /\ (stage[i] = "drop" /\ stage'[i] = "dropExists") =>
                    (pc[i] = "d_call" /\ rtIn'[i] = RetryBegin(NameExists))
             /\ (pc[i] # "d_query" /\ pc'[i] = "d_query") =>
                    (stage[i] = "dropExists" /\ pc[i] = "retOK" /\ res[i] = TRUE)
             /\ (stage[i] = "dropExists" /\ pc[i] = "exhausted" /\ pc'[i] # pc[i]) =>
                    /\ stmts'.drop = stmts.drop
                    /\ stage'[i] = "drop" /\ pc'[i] \in {"delay", "exhausted"}
                    /\ rt'[i].fails = rt[i].fails + 1]_vars

\* A call of dropDatabase has failed having sent as many statements as it can:
\* every existence check answered in its last attempt and every drop statement
\* failed.
C20_Witness ==
    /\ DropEnded(Startup) /\ pc[Startup] = "exhausted"
    /\ stmts.drop = MAX_RETRY_ATTEMPTS
    /\ stmts.exists = MAX_RETRY_ATTEMPTS * MAX_RETRY_ATTEMPTS

=============================================================================
